---- MODULE Spec2Model ----
(***************************************************************************)
(* State-machine model of the browser physics/control core:                *)
(*   PhysicsSimulation    (src/static/js/inference.js, second class)       *)
(*   SimulationController (src/unnamed/part_000)                           *)
(*   InferenceManager     (src/static/js/inference.js, first class)        *)
(*                                                                         *)
(* Numbers.  Torques and actions are JavaScript doubles in the source.     *)
(* They are modelled in fixed point with FracBits fractional bits: the     *)
(* real number r is the integer r * 2^FracBits, products are rounded       *)
(* toward zero.  Quaternions are 4-tuples of integers in units of 1/2, so  *)
(* that <<0,0,0,2>> is the identity and <<1,1,1,1>> is a unit quaternion.  *)
(* Heights are in hundredths.  JavaScript arrays are 0-based, the tuples   *)
(* here are 1-based: oriHistory[0] in the source is oriHistory[1] here.    *)
(*                                                                         *)
(* The rigid-body integrator (cannon-es World.step) and the two networks   *)
(* are outside the repository: the integrator is a nondeterministic choice *)
(* of the next orientation and height, a network is a nondeterministic     *)
(* choice of its output or a rejection.                                    *)
(***************************************************************************)
EXTENDS Integers, Sequences, FiniteSets, TLC

VARIABLES
    \* ---- PhysicsSimulation fields
    started,               \* this.world !== null (start() has run)
    boxQuat,               \* this.boxBody.quaternion (Runtime frame)
    boxPosY,               \* this.boxBody.position.y, in hundredths
    stepCount,             \* this.stepCount
    currentAction,         \* this.currentAction
    targetTorque,          \* this.targetTorque
    currentTorqueApplied,  \* this.currentTorqueApplied
    rlEnabled,             \* this.rlEnabled
    predictedQuaternion,   \* this.predictedQuaternion (Null or a quaternion)
    oriHistory,            \* this.oriHistory
    actionHistory,         \* this.actionHistory
    angVelEstimate,        \* this.angVelEstimate
    worldConstraints,      \* this.world.constraints
    mouseConstraint,       \* this.mouseConstraint (0 = null, else the id)
    mouseBody,             \* this.mouseBody (Null or its position)
    damping,               \* boxBody.linearDamping = angularDamping, hundredths
    worldBodies,           \* this.world.bodies
    boxBody,               \* this.boxBody (0 = null, else the body's id)
    wallSize,              \* this.wallSize, in hundredths
    boxSize,               \* this.boxSize, in hundredths
    meshData,              \* this.meshData (Null or the data given)
    bodyTorque,            \* this.boxBody.torque, the torque accumulated on the body
    \* ---- position inside PhysicsSimulation.step(numSteps)
    inStep,                \* TRUE while the for loop of step() runs
    stepI,                 \* the loop variable i
    numSteps,              \* the argument of step()
    \* ---- SimulationController fields
    isRunning,             \* this.isRunning
    ctlRlEnabled,          \* this.rlEnabled
    frameCount,            \* this.frameCount
    ctlStepCount,          \* this.stepCount
    ctlOriHistory,         \* this.oriHistory
    ctlActionHistory,      \* this.actionHistory
    lastRawQuat,           \* this._lastRawQuat (Null or a quaternion)
    \* ---- InferenceManager fields
    isReady,               \* this.isReady
    useMockData,           \* this.useMockData
    \* ---- position inside one invocation of SimulationController.step()
    tickPc,                \* "idle" | "awaitPose" | "afterPose" | "awaitAction" | "physics"
    tickRawQuat,           \* local rawQuat of predictAndApplyAction across its await
    tickCanvas,            \* the inferenceCanvas argument was given
    tickObs,               \* the observation passed to predictAction (Null if none)
    tickTensorDims,        \* dims of the ort.Tensor built from it (Null if none)
    parked,                \* invocations of step() suspended at an await while
                           \* a later invocation runs
    \* ---- history of the run, read only by the properties
    lastOp,                \* the handler (or handler step) that ran last
    policyOut,             \* the last action the policy returned (Null if none)
    tickStart,             \* slot values when the running tick began
    resetFrom,             \* how getState() stood when reset() was last called
    obsLog,                \* observations of this and the previous tick
    stepLog,               \* what the running (or last) call of step() did
    fcIn,                  \* frame-converter input under test
    fcOut,                 \* frame-converter output under test
    fcPath,                \* conversions applied to fcIn, oldest first
    qIn,                   \* quaternion under test
    qOut,                  \* result of the functions applied to qIn
    qNeg,                  \* result of the same functions applied to -qIn
    qPrev,                 \* qOut before the last function was applied
    qPath                  \* functions applied, oldest first

physVars  == <<started, boxQuat, boxPosY, stepCount, rlEnabled, predictedQuaternion>>
torqVars  == <<currentAction, targetTorque, currentTorqueApplied>>
histVars  == <<oriHistory, actionHistory, angVelEstimate>>
dragVars  == <<worldConstraints, mouseConstraint, mouseBody, damping>>
loopVars  == <<inStep, stepI, numSteps>>
ctlVars   == <<isRunning, ctlRlEnabled, frameCount, ctlStepCount,
               ctlOriHistory, ctlActionHistory, lastRawQuat>>
infVars   == <<isReady, useMockData>>
tickVars  == <<tickPc, tickRawQuat, tickCanvas, tickObs, tickTensorDims,
               parked>>
worldVars == <<worldBodies, boxBody, wallSize, boxSize, meshData, bodyTorque>>
qVars     == <<qIn, qOut, qNeg, qPrev, qPath>>
ghostVars == <<policyOut, tickStart, resetFrom>>
logVars   == <<obsLog, stepLog>>
fcVars    == <<fcIn, fcOut, fcPath>>
vars == <<physVars, torqVars, histVars, dragVars, loopVars, ctlVars, infVars,
          tickVars, lastOp, ghostVars, logVars, fcVars, worldVars, qVars>>

----------------------------------------------------------------------------
\* Bounds of the model

FracBits == 3
ExtremeAction == 1000
MaxStepCount == 8
MaxConstraints == 3
\* Largest factor by which a quaternion under test is scaled
MaxQuatScale == 2
MaxFrameCount == 3
\* Sub-steps an episode runs while the world is reconfigured
MaxWorldSteps == 2
\* Most invocations of step() set aside at an await at a time
MaxParked == 1

----------------------------------------------------------------------------
\* Values

\* null: the empty tuple, comparable with every vector and quaternion
Null == <<>>

One == 2 ^ FracBits

Zero3 == <<0, 0, 0>>
IdentityQuat == <<0, 0, 0, 2>>

\* this.maxTorque = 0.5; this.rampSpeed = 0.5
maxTorque == One \div 2
rampSpeed == One \div 2

\* position: new CANNON.Vec3(0, 1.5, 0); pos.y < 0.05; this.stepCount >= 500
InitialHeight == 150
MinHeight == 5
MaxEpisodeSteps == 500

\* linearDamping/angularDamping: 0.04 at reset and release, 0.5 while held
RestDamping == 4
HeldDamping == 50

\* constructor: this.wallSize = 1.0, this.boxSize = (0.1, 0.1, 0.1), hundredths
DefaultWallSize == 100
DefaultBoxEdge == 10
DefaultBoxSize == <<DefaultBoxEdge, DefaultBoxEdge, DefaultBoxEdge>>

\* const timeStep = 1.0 / 240.0: the slice of one world.step, as its rate
TimeStepHz == 240

\* physics.step(4) of SimulationController.step
TickSubSteps == 4

\* the observation has 23 features (new Float32Array(23))
ObservationLength == 23

\* new ort.Tensor('float32', new Float32Array(observation), [1, 13])
PolicyTensorDims == <<1, 13>>

\* Rounding of a double product: n/d rounded toward zero
Trunc(n, d) == IF n >= 0 THEN n \div d ELSE -((-n) \div d)
FxMul(a, b) == Trunc(a * b, One)

MaxOf(a, b) == IF a >= b THEN a ELSE b
MinOf(a, b) == IF a <= b THEN a ELSE b

Clamp(x, lo, hi) == MaxOf(lo, MinOf(hi, x))

----------------------------------------------------------------------------
\* Frame conversion, as written inline at its call sites

\* SimulationController.predictAndApplyAction: trainingQuat = [x, z, -y, w]
QuatToTraining(q) == <<q[1], q[3], -q[2], q[4]>>

\* SimulationController.predictAndApplyAction: trainingAngVelEst = [x, z, -y]
RuntimeToTrainingNoFlip(v) == <<v[1], v[3], v[2]>>
RuntimeToTraining(v) == <<v[1], v[3], -v[2]>>

\* PhysicsSimulation.setAction: x_axis = a[0]; y_axis = -a[2]; z_axis = a[1]
SetActionAxesRaw(action) == action
SetActionAxesTwice(action) == <<action[1], -action[2], -action[3]>>
SetActionAxes(action) == <<action[1], -action[3], action[2]>>

----------------------------------------------------------------------------
\* Quaternion helpers of PhysicsSimulation

NormSq(q) == q[1] * q[1] + q[2] * q[2] + q[3] * q[3] + q[4] * q[4]

\* Integer square root (largest r with r*r <= n)
ISqrt(n) == CHOOSE r \in 0..n : r * r <= n /\ (r + 1) * (r + 1) > n

\* normalizeQuaternion: q / |q|, identity when the norm is (near) zero.
\* In half units a unit quaternion has |q| = 2.
normalizeQuaternionNoGuard(q) ==
    IF NormSq(q) = 0 THEN q
    ELSE [i \in 1..4 |-> Trunc(q[i] * IdentityQuat[4], ISqrt(NormSq(q)))]
normalizeQuaternion(q) ==
    IF NormSq(q) = 0 THEN IdentityQuat
    ELSE [i \in 1..4 |-> Trunc(q[i] * IdentityQuat[4], ISqrt(NormSq(q)))]

\* normalizeAndCanonicalizeQuaternion: w >= 0, and x >= 0 when w = 0
normalizeAndCanonicalizeNoTie(q) ==
    LET n == normalizeQuaternion(q) IN
    IF n[4] < 0 THEN <<-n[1], -n[2], -n[3], -n[4]>> ELSE n
normalizeAndCanonicalizeQuaternion(q) ==
    LET n == normalizeQuaternion(q) IN
    IF n[4] < 0 \/ (n[4] = 0 /\ n[1] < 0)
    THEN <<-n[1], -n[2], -n[3], -n[4]>>
    ELSE n

\* InferenceManager.canonicalizeQuaternion: the sign flip alone
\*   if (q[3] < 0 || (q[3] === 0 && q[0] < 0)) return [-q[0], -q[1], -q[2], -q[3]]
canonicalizeQuaternionLoose(q) ==
    IF q[4] <= 0 THEN <<-q[1], -q[2], -q[3], -q[4]>> ELSE q
canonicalizeQuaternion(q) ==
    IF q[4] < 0 \/ (q[4] = 0 /\ q[1] < 0)
    THEN <<-q[1], -q[2], -q[3], -q[4]>>
    ELSE q

\* getState(): the fields the properties read
GetTerminatedStrict(count, posY) == count > MaxEpisodeSteps \/ posY < MinHeight
GetTerminated(count, posY) == count >= MaxEpisodeSteps \/ posY < MinHeight
getState ==
    [quaternion |-> normalizeAndCanonicalizeQuaternion(boxQuat),
     step_count |-> stepCount,
     terminated |-> GetTerminated(stepCount, boxPosY),
     action     |-> currentAction]

----------------------------------------------------------------------------
\* Torque controller: one sub-step of PhysicsSimulation.step

\* this.targetTorque[i] = this.currentAction.<i> * this.maxTorque
TargetOfUnscaled(action) == action
TargetOf(action) == [i \in 1..3 |-> FxMul(action[i], maxTorque)]

\* low-pass filter: cur * (1 - rampSpeed) + target * rampSpeed
Ramp(cur, target) == FxMul(cur, One - rampSpeed) + FxMul(target, rampSpeed)

\* Math.max(-maxTorque, Math.min(maxTorque, x))
ClampTorqueNone(x) == x
ClampTorque(x) == Clamp(x, -maxTorque, maxTorque)

RampAndClamp(cur, target) == [i \in 1..3 |-> ClampTorque(Ramp(cur[i], target[i]))]

\* boxBody.quaternion.vmult(v, target): v turned by the quaternion q.  In half
\* units q (v, 0) q* is four times the turned vector.
vmult(q, v) ==
    LET ix == q[4] * v[1] + q[2] * v[3] - q[3] * v[2]
        iy == q[4] * v[2] + q[3] * v[1] - q[1] * v[3]
        iz == q[4] * v[3] + q[1] * v[2] - q[2] * v[1]
        iw == -(q[1] * v[1]) - q[2] * v[2] - q[3] * v[3]
        unit == IdentityQuat[4] * IdentityQuat[4]
    IN  <<Trunc(ix * q[4] - iw * q[1] - iy * q[3] + iz * q[2], unit),
          Trunc(iy * q[4] - iw * q[2] - iz * q[1] + ix * q[3], unit),
          Trunc(iz * q[4] - iw * q[3] - ix * q[2] + iy * q[1], unit)>>

\* boxBody.torque.vadd(t, boxBody.torque)
vadd(a, b) == <<a[1] + b[1], a[2] + b[2], a[3] + b[3]>>

\* The torque on the body when world.step is called: what the body carried,
\* the disturbance of this sub-step if there is one, and the ramped torque,
\* both turned into the world frame.
TorqueAdded(carried, quat, disturbance, applied) ==
    vadd(vmult(quat, applied),
         IF disturbance # Null THEN vadd(vmult(quat, disturbance), carried)
         ELSE carried)

\* The ramped torque is computed first and world.step called after it: the
\* torque handed to the integrator is the new value.
TorqueAtIntegrationStale(before, after) == before
TorqueAtIntegration(before, after) == after

\* world.step(timeStep) of cannon-es integrates the bodies and then clears
\* the force and torque of every body of the world (World.clearForces).
clearForcesNone(torque) == torque
clearForces(torque) == Zero3

----------------------------------------------------------------------------
\* History update of PhysicsSimulation

\* _updateHistory: shift, store the body quaternion, estimate angular velocity
ShiftOri(hist, quat) == <<hist[2], quat>>
AngVelOf(hist) ==
    [i \in 1..3 |-> Clamp(hist[2][i] - hist[1][i], -IdentityQuat[4], IdentityQuat[4])]

\* setAction: shift, store [x_axis, y_axis, z_axis]
ShiftAction(hist, action) == <<hist[2], SetActionAxes(action)>>

----------------------------------------------------------------------------
\* Observation of SimulationController.predictAndApplyAction

\* quaternionToZAxis: [2(xz + wy), 2(yz - wx), 1 - 2(xx + yy)], in units of 1/2
\* for a quaternion in units of 1/2
quaternionToZAxis(q) ==
    <<q[1] * q[3] + q[4] * q[2],
      q[2] * q[3] - q[4] * q[1],
      IdentityQuat[4] - (q[1] * q[1] + q[2] * q[2])>>

\* rawAngVelEst = rawQuat - prevRawQuat on x, y, z, then [x, z, -y]
TrainingAngVelEst(rawQuat, prevRawQuat) ==
    RuntimeToTraining(<<rawQuat[1] - prevRawQuat[1],
                        rawQuat[2] - prevRawQuat[2],
                        rawQuat[3] - prevRawQuat[3]>>)

\* new Float32Array([...]): the entries in the order they are written
BuildObservationSwapped(rawQuat, prevRawQuat, oriHist, actHist) ==
    QuatToTraining(rawQuat)
      \o quaternionToZAxis(QuatToTraining(rawQuat))
      \o quaternionToZAxis(QuatToTraining(rawQuat))
      \o TrainingAngVelEst(rawQuat, prevRawQuat)
      \o oriHist[1]
      \o actHist[1]
      \o actHist[2]
BuildObservation(rawQuat, prevRawQuat, oriHist, actHist) ==
    QuatToTraining(rawQuat)
      \o quaternionToZAxis(QuatToTraining(rawQuat))
      \o quaternionToZAxis(QuatToTraining(rawQuat))
      \o oriHist[1]
      \o TrainingAngVelEst(rawQuat, prevRawQuat)
      \o actHist[1]
      \o actHist[2]

----------------------------------------------------------------------------
\* Observation of PhysicsSimulation.getObservation

\* JavaScript numbers as far as finiteness goes: a finite value or NaN.
\* Arithmetic on NaN, and on undefined, gives NaN.
NaN == [nan |-> TRUE, v |-> 0]
Num(n) == [nan |-> FALSE, v |-> n]
NumMul(a, b) == IF a.nan \/ b.nan THEN NaN ELSE Num(a.v * b.v)
NumAdd(a, b) == IF a.nan \/ b.nan THEN NaN ELSE Num(a.v + b.v)
NumSub(a, b) == IF a.nan \/ b.nan THEN NaN ELSE Num(a.v - b.v)
NumSeq(seq) == [k \in 1..Len(seq) |-> Num(seq[k])]

\* quat.x, quat.y, quat.z, quat.w read from the array [x, y, z, w] which
\* setPredictedQuaternion stores: an array has no such property, the read
\* gives undefined
PropertyOfArray(arr, k) == NaN

\* quaternionToZAxis(this.predictedQuaternion) as getObservation calls it
ZAxisOfPrediction(pq) ==
    LET x == PropertyOfArray(pq, 1)
        y == PropertyOfArray(pq, 2)
        z == PropertyOfArray(pq, 3)
        w == PropertyOfArray(pq, 4)
    IN  <<NumAdd(NumMul(x, z), NumMul(w, y)),
          NumSub(NumMul(y, z), NumMul(w, x)),
          NumSub(Num(IdentityQuat[4]), NumAdd(NumMul(x, x), NumMul(y, y)))>>

\* getObservation(): 23 zeros without a body; a TypeError when
\* predictedQuaternion is null (quat.x of null); otherwise the 23 entries in
\* the order they are written
getObservation ==
    IF boxBody = 0
    THEN [threw |-> FALSE, obs |-> [k \in 1..ObservationLength |-> Num(0)]]
    ELSE IF predictedQuaternion = Null
    THEN [threw |-> TRUE, obs |-> <<>>]
    ELSE [threw |-> FALSE,
          obs |-> NumSeq(boxQuat)
                    \o ZAxisOfPrediction(predictedQuaternion)
                    \o ZAxisOfPrediction(predictedQuaternion)
                    \o NumSeq(oriHistory[1])
                    \o NumSeq(angVelEstimate)
                    \o NumSeq(actionHistory[1])
                    \o NumSeq(actionHistory[2])]

----------------------------------------------------------------------------
\* State after construction (new SimulationController(), which constructs the
\* PhysicsSimulation and the InferenceManager)

\* No tick is running: nothing to compare against
NoSlots ==
    [ori |-> Null, act |-> Null, ctlOri |-> Null, ctlAct |-> Null, interval |-> 0]

\* No observation was built since the last reset
NoObs == [cur |-> Null, prev |-> Null, sinceReset |-> 0]

\* step() was never called
NoStep ==
    [from |-> 0, integrations |-> 0, hz |-> 0, wasTerminated |-> FALSE,
     carried |-> Zero3, torqueAtStep |-> Zero3, disturbed |-> FALSE,
     shifts |-> 0]

Init ==
    /\ started = FALSE
    /\ boxQuat = Null
    /\ boxPosY = 0
    /\ stepCount = 0
    /\ currentAction = Zero3
    /\ targetTorque = Zero3
    /\ currentTorqueApplied = Zero3
    /\ rlEnabled = FALSE
    /\ predictedQuaternion = Null
    /\ oriHistory = <<>>
    /\ actionHistory = <<>>
    /\ angVelEstimate = Zero3
    /\ worldConstraints = <<>>
    /\ mouseConstraint = 0
    /\ mouseBody = Null
    /\ damping = 0
    /\ inStep = FALSE
    /\ stepI = 0
    /\ numSteps = 0
    /\ isRunning = FALSE
    /\ ctlRlEnabled = FALSE
    /\ frameCount = 0
    /\ ctlStepCount = 0
    /\ ctlOriHistory = <<IdentityQuat, IdentityQuat>>
    /\ ctlActionHistory = <<Zero3, Zero3>>
    /\ lastRawQuat = Null
    /\ isReady = FALSE
    /\ useMockData = FALSE
    /\ tickPc = "idle"
    /\ tickRawQuat = Null
    /\ tickCanvas = FALSE
    /\ tickObs = Null
    /\ tickTensorDims = Null
    /\ lastOp = "new"
    /\ policyOut = Null
    /\ tickStart = NoSlots
    /\ resetFrom = [called |-> FALSE, terminated |-> FALSE, byCount |-> FALSE]
    /\ obsLog = NoObs
    /\ stepLog = NoStep
    /\ fcIn = Zero3
    /\ fcOut = Zero3
    /\ fcPath = ""
    /\ parked = <<>>
    /\ worldBodies = <<>>
    /\ boxBody = 0
    /\ wallSize = DefaultWallSize
    /\ boxSize = DefaultBoxSize
    /\ meshData = Null
    /\ bodyTorque = Zero3
    /\ qIn = IdentityQuat
    /\ qOut = IdentityQuat
    /\ qNeg = IdentityQuat
    /\ qPrev = IdentityQuat
    /\ qPath = ""

----------------------------------------------------------------------------
\* PhysicsSimulation: the effect of each method on the fields it writes

\* The bodies of the world.  cannon-es keeps them in an array; only which
\* bodies are in the world matters here, so the array is a set of records.
\* A body added takes the smallest id no body of the world has.
FreshBodyId(world) ==
    CHOOSE n \in 1..(Cardinality(world) + 1) :
        /\ \A b \in world : b.id # n
        /\ \A k \in 1..(n - 1) : \E b \in world : b.id = k
addBody(world, kind, type, shape) ==
    world \cup {[id |-> FreshBodyId(world), kind |-> kind, type |-> type,
                 shape |-> shape]}
removeBody(world, id) == {b \in world : b.id # id}

\* createWalls(size): the old walls leave the world, four static boxes enter
createWalls(world) ==
    LET bare == {b \in world : b.kind # "wall"} IN
    addBody(addBody(addBody(addBody(bare, "wall", "static", "Box"),
                            "wall", "static", "Box"),
                    "wall", "static", "Box"),
            "wall", "static", "Box")

\* start(): a new world with the ground plane and the walls
WorldAtStart == createWalls(addBody({}, "plane", "static", "Plane"))

\* reset(): world.removeBody(this.boxBody), then a new body of mass 0.05 with
\* a Trimesh shape if mesh data is set and a Box shape otherwise is added and
\* becomes this.boxBody.  A new body carries no torque.
ResetBodyKeepOld(world, mesh) ==
    /\ worldBodies' = addBody(world, "box", "dynamic",
                              IF mesh # Null THEN "Trimesh" ELSE "Box")
    /\ boxBody' = FreshBodyId(world)
    /\ bodyTorque' = Zero3
ResetBody(world, mesh) ==
    /\ worldBodies' = addBody(removeBody(world, boxBody), "box", "dynamic",
                              IF mesh # Null THEN "Trimesh" ELSE "Box")
    /\ boxBody' = FreshBodyId(removeBody(world, boxBody))
    /\ bodyTorque' = Zero3

\* reset(): a new body with a random orientation replaces the old one; the
\* constraints of the world are not touched, so a constraint created by
\* grabBox stays attached to the body that was removed.
DetachAll(cs) == [k \in 1..Len(cs) |-> [cs[k] EXCEPT !.bodyA = "removed"]]

DoResetKeepCount(randomQuat) ==
    /\ boxQuat' = randomQuat
    /\ boxPosY' = InitialHeight
    /\ damping' = RestDamping
    /\ worldConstraints' = DetachAll(worldConstraints)
    /\ stepCount' = stepCount
    /\ currentAction' = Zero3
    /\ currentTorqueApplied' = Zero3
    /\ targetTorque' = Zero3
    /\ oriHistory' = <<randomQuat, randomQuat>>
    /\ actionHistory' = <<Zero3, Zero3>>
    /\ angVelEstimate' = Zero3
    /\ predictedQuaternion' = Null
    /\ policyOut' = Null
    /\ obsLog' = NoObs
    /\ resetFrom' = [called     |-> started,
                     terminated |-> started /\ GetTerminated(stepCount, boxPosY),
                     byCount    |-> stepCount >= MaxEpisodeSteps]

DoReset(randomQuat) ==
    /\ boxQuat' = randomQuat
    /\ boxPosY' = InitialHeight
    /\ damping' = RestDamping
    /\ worldConstraints' = DetachAll(worldConstraints)
    /\ stepCount' = 0
    /\ currentAction' = Zero3
    /\ currentTorqueApplied' = Zero3
    /\ targetTorque' = Zero3
    /\ oriHistory' = <<randomQuat, randomQuat>>
    /\ actionHistory' = <<Zero3, Zero3>>
    /\ angVelEstimate' = Zero3
    /\ predictedQuaternion' = Null
    /\ policyOut' = Null
    /\ obsLog' = NoObs
    /\ resetFrom' = [called     |-> started,
                     terminated |-> started /\ GetTerminated(stepCount, boxPosY),
                     byCount    |-> stepCount >= MaxEpisodeSteps]

\* setAction(action)
DoSetAction(action) ==
    /\ actionHistory' = ShiftAction(actionHistory, action)
    /\ currentAction' = SetActionAxes(action)

\* setRLEnabled(enabled)
DoSetRLEnabled(enabled) ==
    /\ rlEnabled' = enabled
    /\ currentAction' = IF enabled THEN currentAction ELSE Zero3
    /\ policyOut' = IF enabled THEN policyOut ELSE Null

\* _updateHistory()
DoUpdateHistory ==
    /\ oriHistory' = ShiftOri(oriHistory, boxQuat)
    /\ angVelEstimate' = AngVelOf(ShiftOri(oriHistory, boxQuat))

----------------------------------------------------------------------------
\* PhysicsSimulation: the methods as operations.  JavaScript runs a handler to
\* completion, so nothing else runs while the loop of step() does.

Quiet == started /\ ~inStep

\* for (let i = 0; i < numSteps; i++)
LoopContinuesInclusive(i, n) == i <= n
LoopContinues(i, n) == i < n

\* entry of step(n): what the call starts from
StepEntry ==
    [from |-> stepCount, integrations |-> 0, hz |-> 0,
     wasTerminated |-> GetTerminated(stepCount, boxPosY),
     carried |-> Zero3, torqueAtStep |-> Zero3, disturbed |-> FALSE,
     shifts |-> 0]

\* start(): build the world, walls, and reset()
Start(Quats) ==
    /\ ~started
    /\ \E q \in Quats : DoReset(q)
    /\ ResetBody(WorldAtStart, meshData)
    /\ started' = TRUE
    /\ lastOp' = "start"
    /\ UNCHANGED <<rlEnabled, mouseConstraint, mouseBody, loopVars, ctlVars,
                   infVars, tickVars, tickStart, fcVars, stepLog,
                   wallSize, boxSize, meshData, qVars>>

Reset(Quats) ==
    /\ Quiet
    /\ \E q \in Quats : DoReset(q)
    /\ ResetBody(worldBodies, meshData)
    /\ lastOp' = "reset"
    /\ UNCHANGED <<started, rlEnabled, mouseConstraint, mouseBody, loopVars,
                   ctlVars, infVars, tickVars, tickStart, fcVars, stepLog,
                   wallSize, boxSize, meshData, qVars>>

SetAction(Actions) ==
    /\ Quiet
    /\ \E a \in Actions :
          /\ DoSetAction(a)
          /\ policyOut' = a
    /\ lastOp' = "setAction"
    /\ UNCHANGED <<physVars, targetTorque, currentTorqueApplied, oriHistory,
                   angVelEstimate, dragVars, loopVars, ctlVars, infVars,
                   tickVars, tickStart, resetFrom, fcVars, logVars,
                   worldVars, qVars>>

SetRLEnabled ==
    /\ Quiet
    /\ \E enabled \in BOOLEAN : DoSetRLEnabled(enabled)
    /\ lastOp' = "setRLEnabled"
    /\ UNCHANGED <<started, boxQuat, boxPosY, stepCount, predictedQuaternion,
                   targetTorque, currentTorqueApplied, histVars, dragVars,
                   loopVars, ctlVars, infVars, tickVars, tickStart, resetFrom,
                   fcVars, logVars,
                   worldVars, qVars>>

\* step(numSteps): entry.  The guard on the step count only bounds the model.
StepBegin(Sizes, Cap) ==
    /\ Quiet
    /\ tickPc = "idle"
    /\ \E n \in Sizes :
          /\ stepCount + n <= Cap
          /\ numSteps' = n
    /\ inStep' = TRUE
    /\ stepI' = 0
    /\ stepLog' = StepEntry
    /\ lastOp' = "stepBegin"
    /\ UNCHANGED <<physVars, torqVars, histVars, dragVars, ctlVars, infVars,
                   tickVars, ghostVars, fcVars, obsLog,
                   worldVars, qVars>>

\* step(numSteps): one iteration of the loop.  With probability 0.03 a random
\* disturbance d is added to the body's torque (Null: none); the ramped torque
\* is added; world.step() integrates: its result is the choice of q and y.
SubStep(Quats, Heights, Disturbances) ==
    /\ inStep
    /\ LoopContinues(stepI, numSteps)
    /\ targetTorque' = TargetOf(currentAction)
    /\ currentTorqueApplied' = RampAndClamp(currentTorqueApplied, TargetOf(currentAction))
    /\ \E d \in Disturbances :
          /\ bodyTorque' = clearForces(TorqueAdded(bodyTorque, boxQuat, d,
                                                   currentTorqueApplied'))
          /\ stepLog' = [stepLog EXCEPT
                            !.integrations = @ + 1,
                            !.hz = TimeStepHz,
                            !.carried = bodyTorque,
                            !.disturbed = (d # Null),
                            !.torqueAtStep =
                               TorqueAtIntegration(currentTorqueApplied,
                                                   currentTorqueApplied')]
    /\ \E q \in Quats, y \in Heights :
          /\ boxQuat' = q
          /\ boxPosY' = y
    /\ stepCount' = stepCount + 1
    /\ stepI' = stepI + 1
    /\ lastOp' = "subStep"
    /\ UNCHANGED <<started, rlEnabled, predictedQuaternion, currentAction,
                   histVars, dragVars, inStep, numSteps, ctlVars, infVars,
                   tickVars, ghostVars, fcVars, obsLog,
                   worldBodies, boxBody, wallSize, boxSize, meshData, qVars>>

\* step(numSteps): after the loop, _updateHistory() and return getState().
\* When SimulationController.step() made the call, it stores step_count and
\* returns: the tick is over.
StepEndNoHistory ==
    /\ inStep
    /\ ~LoopContinues(stepI, numSteps)
    /\ inStep' = FALSE
    /\ IF tickPc = "physics"
       THEN /\ ctlStepCount' = stepCount
            /\ tickPc' = "idle"
            /\ lastOp' = "tickEnd"
       ELSE /\ UNCHANGED <<ctlStepCount, tickPc>>
            /\ lastOp' = "step"
    /\ UNCHANGED <<physVars, torqVars, histVars, dragVars, stepI, numSteps,
                   isRunning, ctlRlEnabled, frameCount, ctlOriHistory,
                   ctlActionHistory, lastRawQuat, infVars, tickRawQuat,
                   tickCanvas, parked, tickObs, tickTensorDims, ghostVars, fcVars,
                   logVars, worldVars, qVars>>
StepEnd ==
    /\ inStep
    /\ ~LoopContinues(stepI, numSteps)
    /\ DoUpdateHistory
    /\ stepLog' = [stepLog EXCEPT !.shifts = @ + 1]
    /\ inStep' = FALSE
    /\ IF tickPc = "physics"
       THEN /\ ctlStepCount' = stepCount
            /\ tickPc' = "idle"
            /\ lastOp' = "tickEnd"
       ELSE /\ UNCHANGED <<ctlStepCount, tickPc>>
            /\ lastOp' = "step"
    /\ UNCHANGED <<physVars, torqVars, actionHistory, dragVars, stepI, numSteps,
                   isRunning, ctlRlEnabled, frameCount, ctlOriHistory,
                   ctlActionHistory, lastRawQuat, infVars, tickRawQuat,
                   tickCanvas, parked, tickObs, tickTensorDims, ghostVars, fcVars,
                   obsLog, worldVars, qVars>>

----------------------------------------------------------------------------
\* SimulationController and the InferenceManager it awaits.  An await splits
\* a method in two operations; between them other handlers may run.

\* initialize(): await inference.loadModels(), then physics.start().  Every
\* path of loadModels ends with isReady = true; useMockData is set when a
\* model could not be loaded.
Initialize(Quats) ==
    /\ ~started
    /\ isReady' = TRUE
    /\ \E mock \in BOOLEAN : useMockData' = mock
    /\ \E q \in Quats : DoReset(q)
    /\ ResetBody(WorldAtStart, meshData)
    /\ started' = TRUE
    /\ lastOp' = "initialize"
    /\ UNCHANGED <<rlEnabled, mouseConstraint, mouseBody, loopVars, ctlVars,
                   tickVars, tickStart, fcVars, stepLog,
                   wallSize, boxSize, meshData, qVars>>

\* start()
CtlStart ==
    /\ Quiet
    /\ ~isRunning
    /\ isRunning' = TRUE
    /\ frameCount' = 0
    /\ lastOp' = "ctlStart"
    /\ UNCHANGED <<physVars, torqVars, histVars, dragVars, loopVars,
                   ctlRlEnabled, ctlStepCount, ctlOriHistory, ctlActionHistory,
                   lastRawQuat, infVars, tickVars, ghostVars, fcVars, logVars,
                   worldVars, qVars>>

\* stop()
CtlStop ==
    /\ Quiet
    /\ isRunning' = FALSE
    /\ lastOp' = "ctlStop"
    /\ UNCHANGED <<physVars, torqVars, histVars, dragVars, loopVars,
                   ctlRlEnabled, frameCount, ctlStepCount, ctlOriHistory,
                   ctlActionHistory, lastRawQuat, infVars, tickVars, ghostVars,
                   fcVars, logVars,
                   worldVars, qVars>>

\* reset(): physics.reset(), frameCount = 0, stepCount = 0
CtlReset(Quats) ==
    /\ Quiet
    /\ \E q \in Quats : DoReset(q)
    /\ ResetBody(worldBodies, meshData)
    /\ frameCount' = 0
    /\ ctlStepCount' = 0
    /\ tickStart' = NoSlots
    /\ lastOp' = "ctlReset"
    /\ UNCHANGED <<started, rlEnabled, mouseConstraint, mouseBody, loopVars,
                   isRunning, ctlRlEnabled, ctlOriHistory, ctlActionHistory,
                   lastRawQuat, infVars, tickVars, fcVars, stepLog,
                   wallSize, boxSize, meshData, qVars>>

\* setRLEnabled(enabled)
CtlSetRLEnabled ==
    /\ Quiet
    /\ \E enabled \in BOOLEAN :
          /\ ctlRlEnabled' = enabled
          /\ DoSetRLEnabled(enabled)
    /\ lastOp' = "ctlSetRLEnabled"
    /\ UNCHANGED <<started, boxQuat, boxPosY, stepCount, predictedQuaternion,
                   targetTorque, currentTorqueApplied, histVars, dragVars,
                   loopVars, isRunning, frameCount, ctlStepCount, ctlOriHistory,
                   ctlActionHistory, lastRawQuat, infVars, tickVars, tickStart,
                   resetFrom, fcVars, logVars,
                   worldVars, qVars>>

\* step(), from "Predict RL action if enabled" on, with pq the predicted
\* quaternion at that point.  Either predictAndApplyAction() runs up to its
\* await of inference.predictAction (rawQuat is the prediction, or the body's
\* canonical quaternion when there is none), or physics.step(4) is entered.
RawQuatOf(pq) == IF pq # Null THEN pq ELSE getState.quaternion
ObservationOf(pq) ==
    BuildObservation(RawQuatOf(pq),
                     IF lastRawQuat # Null THEN lastRawQuat ELSE RawQuatOf(pq),
                     ctlOriHistory, ctlActionHistory)
EnterRL(pq, log) ==
    IF ctlRlEnabled /\ isReady
    THEN /\ tickPc' = "awaitAction"
         /\ tickRawQuat' = RawQuatOf(pq)
         /\ tickObs' = ObservationOf(pq)
         /\ tickTensorDims' = IF useMockData THEN Null ELSE PolicyTensorDims
         /\ obsLog' = [log EXCEPT !.cur = ObservationOf(pq),
                                  !.sinceReset = MinOf(@ + 1, 2)]
         /\ UNCHANGED <<loopVars, stepLog>>
    ELSE /\ tickPc' = "physics"
         /\ tickRawQuat' = Null
         /\ tickObs' = Null
         /\ tickTensorDims' = Null
         /\ obsLog' = log
         /\ inStep' = TRUE
         /\ stepI' = 0
         /\ numSteps' = TickSubSteps
         /\ stepLog' = StepEntry

\* step(): if (inferenceCanvas && this.frameCount % inferenceInterval === 0)
\* await this.runInference(...), which returns at once unless inference.ready()
InferenceDueEveryFrame(canvas, count, interval) == canvas /\ isReady
InferenceDue(canvas, count, interval) ==
    canvas /\ count % interval = 0 /\ isReady

\* step(inferenceCanvas, inferenceInterval): entry, up to the first await.
\* The guards on frameCount and stepCount only bound the model.
TickBegin(Intervals) ==
    /\ Quiet
    /\ isRunning
    /\ tickPc = "idle"
    /\ frameCount < MaxFrameCount
    /\ stepCount + TickSubSteps <= MaxStepCount
    /\ frameCount' = frameCount + 1
    /\ \E canvas \in BOOLEAN, interval \in Intervals :
          /\ tickCanvas' = canvas
          /\ tickStart' = [ori |-> oriHistory[2], act |-> actionHistory[2],
                           ctlOri |-> ctlOriHistory[2],
                           ctlAct |-> ctlActionHistory[2], interval |-> interval]
          /\ IF InferenceDue(canvas, frameCount + 1, interval)
             THEN /\ tickPc' = "awaitPose"
                  /\ obsLog' = [obsLog EXCEPT !.prev = obsLog.cur, !.cur = Null]
                  /\ UNCHANGED <<tickRawQuat, tickObs, tickTensorDims,
                                 loopVars, stepLog>>
             ELSE EnterRL(predictedQuaternion,
                          [obsLog EXCEPT !.prev = obsLog.cur, !.cur = Null])
    /\ lastOp' = "tickBegin"
    /\ UNCHANGED <<physVars, torqVars, histVars, dragVars, isRunning,
                   ctlRlEnabled, ctlStepCount, ctlOriHistory, ctlActionHistory,
                   lastRawQuat, infVars, parked, policyOut, resetFrom,
                   fcVars, worldVars, qVars>>

\* runInference(): inference.predictPose() resolves with the network's
\* quaternion (the identity in mock mode); physics.setPredictedQuaternion()
\* normalizes and stores it.
PoseResolveUnlessReset(Quats) ==
    /\ Quiet
    /\ tickPc = "awaitPose"
    /\ IF tickStart # NoSlots
       THEN \E q \in (IF useMockData THEN {IdentityQuat} ELSE Quats \cup {IdentityQuat}) :
               /\ predictedQuaternion' = normalizeQuaternion(q)
               /\ EnterRL(normalizeQuaternion(q), obsLog)
       ELSE /\ predictedQuaternion' = predictedQuaternion
            /\ EnterRL(predictedQuaternion, obsLog)
    /\ lastOp' = "poseResolve"
    /\ UNCHANGED <<started, boxQuat, boxPosY, stepCount, rlEnabled, torqVars,
                   histVars, dragVars, ctlVars, infVars, tickCanvas, parked,
                   ghostVars, fcVars, worldVars, qVars>>
PoseResolveDiscarding(Quats) ==
    /\ Quiet
    /\ tickPc = "awaitPose"
    /\ IF isRunning
       THEN \E q \in (IF useMockData THEN {IdentityQuat} ELSE Quats \cup {IdentityQuat}) :
               /\ predictedQuaternion' = normalizeQuaternion(q)
               /\ EnterRL(normalizeQuaternion(q), obsLog)
       ELSE /\ predictedQuaternion' = predictedQuaternion
            /\ EnterRL(predictedQuaternion, obsLog)
    /\ lastOp' = "poseResolve"
    /\ UNCHANGED <<started, boxQuat, boxPosY, stepCount, rlEnabled, torqVars,
                   histVars, dragVars, ctlVars, infVars, tickCanvas, parked,
                   ghostVars, fcVars, worldVars, qVars>>
PoseResolve(Quats) ==
    /\ Quiet
    /\ tickPc = "awaitPose"
    /\ \E q \in (IF useMockData THEN {IdentityQuat} ELSE Quats \cup {IdentityQuat}) :
          /\ predictedQuaternion' = normalizeQuaternion(q)
          /\ EnterRL(normalizeQuaternion(q), obsLog)
    /\ lastOp' = "poseResolve"
    /\ UNCHANGED <<started, boxQuat, boxPosY, stepCount, rlEnabled, torqVars,
                   histVars, dragVars, ctlVars, infVars, tickCanvas, parked, ghostVars,
                   fcVars,
                   worldVars, qVars>>

\* runInference(): the network run inside predictPose() throws or rejects.
\* predictPose() catches the error and returns { quaternion: [0, 0, 0, 1] },
\* which runInference() stores like a prediction.
PoseFail ==
    /\ Quiet
    /\ tickPc = "awaitPose"
    /\ ~useMockData
    /\ predictedQuaternion' = normalizeQuaternion(IdentityQuat)
    /\ EnterRL(normalizeQuaternion(IdentityQuat), obsLog)
    /\ lastOp' = "poseFail"
    /\ UNCHANGED <<started, boxQuat, boxPosY, stepCount, rlEnabled, torqVars,
                   histVars, dragVars, ctlVars, infVars, tickCanvas, parked, ghostVars,
                   fcVars,
                   worldVars, qVars>>

\* physics.step(4) of SimulationController.step(): entry
TickPhysics ==
    /\ tickPc' = "physics"
    /\ tickRawQuat' = Null
    /\ tickObs' = Null
    /\ tickTensorDims' = Null
    /\ inStep' = TRUE
    /\ stepI' = 0
    /\ numSteps' = TickSubSteps
    /\ stepLog' = StepEntry

\* predictAndApplyAction(): inference.predictAction() resolves with an action.
\* In mock mode the action is [0, 0, 0].
PolicyResolve(Actions) ==
    /\ Quiet
    /\ tickPc = "awaitAction"
    /\ \E action \in (IF useMockData THEN {Zero3} ELSE Actions) :
          /\ DoSetAction(action)
          /\ ctlActionHistory' = <<ctlActionHistory[2], action>>
          /\ policyOut' = action
    /\ ctlOriHistory' = <<ctlOriHistory[2], QuatToTraining(tickRawQuat)>>
    /\ lastRawQuat' = tickRawQuat
    /\ TickPhysics
    /\ lastOp' = "policyResolve"
    /\ UNCHANGED <<physVars, targetTorque, currentTorqueApplied, oriHistory,
                   angVelEstimate, dragVars, isRunning, ctlRlEnabled, frameCount,
                   ctlStepCount, infVars, tickCanvas, parked, tickStart, resetFrom,
                   fcVars, obsLog,
                   worldVars, qVars>>

\* predictAndApplyAction(): inference.predictAction() rejects; the catch
\* block calls physics.setAction([0, 0, 0]).
PolicyRejectUncaught ==
    /\ Quiet
    /\ tickPc = "awaitAction"
    /\ ~useMockData
    /\ policyOut' = Null
    /\ tickPc' = "idle"
    /\ tickRawQuat' = Null
    /\ tickObs' = Null
    /\ tickTensorDims' = Null
    /\ lastOp' = "policyReject"
    /\ UNCHANGED <<physVars, torqVars, histVars, dragVars, loopVars, ctlVars,
                   infVars, tickCanvas, parked, tickStart, resetFrom, fcVars, logVars,
                   worldVars, qVars>>
PolicyReject ==
    /\ Quiet
    /\ tickPc = "awaitAction"
    /\ ~useMockData
    /\ DoSetAction(Zero3)
    /\ policyOut' = Null
    /\ TickPhysics
    /\ lastOp' = "policyReject"
    /\ UNCHANGED <<physVars, targetTorque, currentTorqueApplied, oriHistory,
                   angVelEstimate, dragVars, ctlVars, infVars, tickCanvas, parked,
                   tickStart, resetFrom, fcVars, obsLog,
                   worldVars, qVars>>

----------------------------------------------------------------------------
\* Configuration of the world and of the tracked body

\* updateWalls(size) -> createWalls(size); sizes in hundredths
UpdateWalls(Sizes) ==
    /\ Quiet
    /\ \E size \in Sizes : wallSize' = size
    /\ worldBodies' = createWalls(worldBodies)
    /\ lastOp' = "updateWalls"
    /\ UNCHANGED <<physVars, torqVars, histVars, dragVars, loopVars, ctlVars,
                   infVars, tickVars, ghostVars, logVars, fcVars, boxBody,
                   boxSize, meshData, bodyTorque, qVars>>

\* setBoxSize(x, y, z): this.boxSize.set(x, y, z); this.reset()
SetBoxSize(Sizes, Quats) ==
    /\ Quiet
    /\ \E size \in Sizes : boxSize' = size
    /\ \E q \in Quats : DoReset(q)
    /\ ResetBody(worldBodies, meshData)
    /\ lastOp' = "setBoxSize"
    /\ UNCHANGED <<started, rlEnabled, mouseConstraint, mouseBody, loopVars,
                   ctlVars, infVars, tickVars, tickStart, fcVars, stepLog,
                   wallSize, meshData, qVars>>

\* setMeshShape(vertices, indices): this.meshData = { vertices, indices };
\* this.reset().  The mesh is the pair <<number of vertex coordinates, indices>>.
SetMeshShape(Meshes, Quats) ==
    /\ Quiet
    /\ \E mesh \in Meshes :
          /\ meshData' = mesh
          /\ ResetBody(worldBodies, mesh)
    /\ \E q \in Quats : DoReset(q)
    /\ lastOp' = "setMeshShape"
    /\ UNCHANGED <<started, rlEnabled, mouseConstraint, mouseBody, loopVars,
                   ctlVars, infVars, tickVars, tickStart, fcVars, stepLog,
                   wallSize, boxSize, qVars>>

\* teleportBox(position, quaternion = null): the body is moved, and turned if
\* a quaternion is given (stored as given)
TeleportBox(Ys, Quats) ==
    /\ Quiet
    /\ boxBody # 0
    /\ \E y \in Ys : boxPosY' = y
    /\ \E q \in Quats \cup {Null} : boxQuat' = IF q # Null THEN q ELSE boxQuat
    /\ lastOp' = "teleportBox"
    /\ UNCHANGED <<started, stepCount, rlEnabled, predictedQuaternion, torqVars,
                   histVars, dragVars, loopVars, ctlVars, infVars, tickVars,
                   ghostVars, logVars, fcVars, worldVars, qVars>>

----------------------------------------------------------------------------
\* Overlapping invocations of SimulationController.step().  step() is async:
\* at "await this.runInference(...)" and at "await this.predictAndApplyAction()"
\* the invocation gives control back to the host loop, which calls step()
\* again on the next animation frame whether or not the earlier invocation
\* has returned.  The tick variables hold the invocation that runs (or will
\* run next); parked holds the other invocations that wait at an await.

TickFrame ==
    [pc |-> tickPc, rawQuat |-> tickRawQuat, canvas |-> tickCanvas,
     obs |-> tickObs, dims |-> tickTensorDims]

\* The invocation at an await is set aside: the host loop may call step().
Yield ==
    /\ tickPc \in {"awaitPose", "awaitAction"}
    /\ Len(parked) < MaxParked
    /\ parked' = Append(parked, TickFrame)
    /\ tickPc' = "idle"
    /\ tickRawQuat' = Null
    /\ tickObs' = Null
    /\ tickTensorDims' = Null
    /\ UNCHANGED <<physVars, torqVars, histVars, dragVars, loopVars, ctlVars,
                   infVars, tickCanvas, lastOp, ghostVars, logVars, fcVars,
                   worldVars, qVars>>

\* The promise of a waiting invocation is the next to settle: it takes the
\* place of the invocation the tick variables hold, which waits in its turn
\* if it is at an await.  Promises settle in any order.
Resume ==
    /\ tickPc \in {"idle", "awaitPose", "awaitAction"}
    /\ ~inStep
    /\ \E k \in 1..Len(parked) :
          /\ tickPc' = parked[k].pc
          /\ tickRawQuat' = parked[k].rawQuat
          /\ tickCanvas' = parked[k].canvas
          /\ tickObs' = parked[k].obs
          /\ tickTensorDims' = parked[k].dims
          /\ parked' = IF tickPc = "idle"
                       THEN SubSeq(parked, 1, k - 1) \o SubSeq(parked, k + 1, Len(parked))
                       ELSE [parked EXCEPT ![k] = TickFrame]
    /\ UNCHANGED <<physVars, torqVars, histVars, dragVars, loopVars, ctlVars,
                   infVars, lastOp, ghostVars, logVars, fcVars,
                   worldVars, qVars>>

\* Calls into the inference engine that have not settled: every invocation at
\* an await outside mock mode waits for a session run (poseSession.run or
\* rlSession.run); in mock mode no session exists.
WaitingAt(pc) ==
    (IF tickPc = pc THEN 1 ELSE 0)
       + Cardinality({k \in 1..Len(parked) : parked[k].pc = pc})
InferenceCalls ==
    IF useMockData THEN 0 ELSE WaitingAt("awaitPose") + WaitingAt("awaitAction")

----------------------------------------------------------------------------
\* Drag/pick interaction of PhysicsSimulation.  cannon-es keeps the world's
\* constraints in an array: addConstraint pushes, removeConstraint splices the
\* given constraint out if it is there.

ConstraintIds(cs) == {cs[k].id : k \in 1..Len(cs)}
FreshId(cs) == CHOOSE n \in 1..(Len(cs) + 1) : n \notin ConstraintIds(cs)
addConstraint(cs, c) == Append(cs, c)
removeConstraint(cs, id) == SelectSeq(cs, LAMBDA c : c.id # id)

\* grabBox(point).  The guard on the length only bounds the model.
GrabBox(Points) ==
    /\ Quiet
    /\ Len(worldConstraints) < MaxConstraints
    /\ \E point \in Points : mouseBody' = point
    /\ worldBodies' = IF mouseBody = Null
                      THEN addBody(worldBodies, "mouse", "kinematic", "none")
                      ELSE worldBodies
    /\ mouseConstraint' = FreshId(worldConstraints)
    /\ worldConstraints' = addConstraint(worldConstraints,
                              [id |-> FreshId(worldConstraints), bodyA |-> "boxBody"])
    /\ damping' = HeldDamping
    /\ lastOp' = "grabBox"
    /\ UNCHANGED <<physVars, torqVars, histVars, loopVars, ctlVars, infVars,
                   tickVars, ghostVars, fcVars, logVars,
                   boxBody, wallSize, boxSize, meshData, bodyTorque, qVars>>

\* moveGrabbed(point): nothing happens before the first grab
MoveGrabbed(Points) ==
    /\ Quiet
    /\ mouseBody # Null
    /\ \E point \in Points : mouseBody' = point
    /\ lastOp' = "moveGrabbed"
    /\ UNCHANGED <<physVars, torqVars, histVars, worldConstraints,
                   mouseConstraint, damping, loopVars, ctlVars, infVars,
                   tickVars, ghostVars, fcVars, logVars,
                   worldVars, qVars>>

\* releaseBox()
ReleaseBox ==
    /\ Quiet
    /\ IF mouseConstraint # 0
       THEN /\ worldConstraints' = removeConstraint(worldConstraints, mouseConstraint)
            /\ mouseConstraint' = 0
       ELSE UNCHANGED <<worldConstraints, mouseConstraint>>
    /\ damping' = RestDamping
    /\ lastOp' = "releaseBox"
    /\ UNCHANGED <<physVars, torqVars, histVars, mouseBody, loopVars, ctlVars,
                   infVars, tickVars, ghostVars, fcVars, logVars,
                   worldVars, qVars>>

----------------------------------------------------------------------------
\* Frame converter on its own: the two inline mappings applied to a vector

FramePick(Vecs) ==
    /\ \E v \in Vecs :
          /\ fcIn' = v
          /\ fcOut' = v
    /\ fcPath' = ""
    /\ UNCHANGED <<physVars, torqVars, histVars, dragVars, loopVars, ctlVars,
                   infVars, tickVars, lastOp, ghostVars, logVars,
                   worldVars, qVars>>

FrameToTraining ==
    /\ fcPath \in {"", "R"}
    /\ fcOut' = RuntimeToTraining(fcOut)
    /\ fcPath' = IF fcPath = "" THEN "T" ELSE "RT"
    /\ UNCHANGED <<physVars, torqVars, histVars, dragVars, loopVars, ctlVars,
                   infVars, tickVars, lastOp, ghostVars, logVars, fcIn,
                   worldVars, qVars>>

FrameToRuntime ==
    /\ fcPath \in {"", "T"}
    /\ fcOut' = SetActionAxes(fcOut)
    /\ fcPath' = IF fcPath = "" THEN "R" ELSE "TR"
    /\ UNCHANGED <<physVars, torqVars, histVars, dragVars, loopVars, ctlVars,
                   infVars, tickVars, lastOp, ghostVars, logVars, fcIn,
                   worldVars, qVars>>

----------------------------------------------------------------------------
\* The quaternion utilities as operations on a quaternion under test.  Each
\* function is applied to the running result for q and to the running result
\* for -q, at most two functions in a row.

QuatPick(Quats) ==
    /\ \E q \in Quats :
          /\ qIn' = q
          /\ qOut' = q
          /\ qNeg' = <<-q[1], -q[2], -q[3], -q[4]>>
          /\ qPrev' = q
    /\ qPath' = ""
    /\ lastOp' = "quatPick"
    /\ UNCHANGED <<physVars, torqVars, histVars, dragVars, loopVars, ctlVars,
                   infVars, tickVars, ghostVars, logVars, fcVars, worldVars>>

QuatNormalize ==
    /\ qPath \in {"", "N", "C", "K"}
    /\ qOut' = normalizeQuaternion(qOut)
    /\ qNeg' = normalizeQuaternion(qNeg)
    /\ qPrev' = qOut
    /\ qPath' = qPath \o "N"
    /\ UNCHANGED <<physVars, torqVars, histVars, dragVars, loopVars, ctlVars,
                   infVars, tickVars, lastOp, ghostVars, logVars, fcVars,
                   worldVars, qIn>>

QuatCanonicalize ==
    /\ qPath \in {"", "N", "C", "K"}
    /\ qOut' = canonicalizeQuaternion(qOut)
    /\ qNeg' = canonicalizeQuaternion(qNeg)
    /\ qPrev' = qOut
    /\ qPath' = qPath \o "C"
    /\ UNCHANGED <<physVars, torqVars, histVars, dragVars, loopVars, ctlVars,
                   infVars, tickVars, lastOp, ghostVars, logVars, fcVars,
                   worldVars, qIn>>

QuatNormalizeAndCanonicalize ==
    /\ qPath \in {"", "N", "C", "K"}
    /\ qOut' = normalizeAndCanonicalizeQuaternion(qOut)
    /\ qNeg' = normalizeAndCanonicalizeQuaternion(qNeg)
    /\ qPrev' = qOut
    /\ qPath' = qPath \o "K"
    /\ UNCHANGED <<physVars, torqVars, histVars, dragVars, loopVars, ctlVars,
                   infVars, tickVars, lastOp, ghostVars, logVars, fcVars,
                   worldVars, qIn>>

\* setPredictedQuaternion(q), called with the quaternion under test
SetPredictedQuaternion ==
    /\ predictedQuaternion' = normalizeQuaternion(qIn)
    /\ lastOp' = "setPredictedQuaternion"
    /\ UNCHANGED <<started, boxQuat, boxPosY, stepCount, rlEnabled, torqVars,
                   histVars, dragVars, loopVars, ctlVars, infVars, tickVars,
                   ghostVars, logVars, fcVars, worldVars, qVars>>

----------------------------------------------------------------------------
\* Inputs

\* Orientations: identity, a half turn about y, two generic ones, one of them
\* with w < 0 (setFromAxisAngle gives w = cos(angle/2) < 0 for angle > pi)
QuatA == <<0, 2, 0, 0>>
QuatB == <<1, 1, -1, 1>>
QuatC == <<-1, 1, 1, -1>>

\* Heights: the spawn height, resting on the ground, fallen below the threshold
Heights == {InitialHeight, 10, 2}

\* Policy outputs (Training frame): zero, unit x, unit y, and an extreme one
ActionX == <<One, 0, 0>>
ActionY == <<0, One, 0>>
ActionExtreme == <<ExtremeAction * One, -(ExtremeAction * One), One \div 2>>
TorqueActions == {Zero3, ActionX, ActionY, ActionExtreme}

\* Disturbance torques of a sub-step: none, or one of size 0.125 on two axes
Disturbances == {Null, <<1, 0, -1>>}

Points == {<<0, 1, 0>>, <<1, 1, 0>>}

FrameVecs == {<<a, b, c>> : a, b, c \in -2..2}

\* Arena sizes (hundredths): the default, zero and a negative one
WallSizes == {DefaultWallSize, 0, -DefaultWallSize}

\* Box half extents: the default and a flat box
BoxSizes == {DefaultBoxSize, <<2 * DefaultBoxEdge, DefaultBoxEdge, DefaultBoxEdge>>}

\* Meshes as <<number of vertex coordinates, indices>>: a triangle; a triangle
\* whose last index names no vertex; seven coordinates, which are not a whole
\* number of vertices; no data at all
Meshes ==
    {<<9, <<0, 1, 2>>>>, <<9, <<0, 1, 5>>>>, <<7, <<0, 1, 2>>>>, <<0, <<>>>>}

\* Quaternions under test: the zero quaternion and the multiples k * u of the
\* unit quaternions u of the half-unit grid, whose norm 2k has an exact square
\* root, so that the division of normalizeQuaternion is exact as well.
GridUnits ==
    {q \in {<<a, b, c, d>> : a, b, c, d \in -2..2} : NormSq(q) = NormSq(IdentityQuat)}
QuatInputs ==
    {<<0, 0, 0, 0>>} \cup
    {<<k * u[1], k * u[2], k * u[3], k * u[4]>> : k \in 1..MaxQuatScale, u \in GridUnits}

----------------------------------------------------------------------------
\* Specifications

\* Torque controller: setAction, setRLEnabled, reset and step on a started
\* PhysicsSimulation
NextTorque ==
    \/ Start({IdentityQuat})
    \/ Reset({IdentityQuat})
    \/ SetAction(TorqueActions)
    \/ SetRLEnabled
    \/ StepBegin({4}, MaxStepCount)
    \/ SubStep({IdentityQuat, QuatA}, {InitialHeight}, Disturbances)
    \/ StepEnd
SpecTorque == Init /\ [][NextTorque]_vars

\* Drag/pick: grabBox, moveGrabbed, releaseBox, reset and step
NextDrag ==
    \/ Start({IdentityQuat, QuatB})
    \/ Reset({IdentityQuat, QuatB})
    \/ GrabBox(Points)
    \/ MoveGrabbed(Points)
    \/ ReleaseBox
    \/ StepBegin({1}, MaxStepCount)
    \/ SubStep({IdentityQuat, QuatB}, {InitialHeight}, {Null})
    \/ StepEnd
SpecDrag == Init /\ [][NextDrag]_vars

\* The controller loop: ticks with pose and policy inference, reset and the
\* RL switch
NextTick ==
    \/ Initialize({IdentityQuat, QuatC})
    \/ CtlStart
    \/ CtlReset({IdentityQuat, QuatC})
    \/ CtlSetRLEnabled
    \/ TickBegin({2})
    \/ PoseResolve({QuatA})
    \/ PoseFail
    \/ PolicyResolve({ActionY})
    \/ PolicyReject
    \/ SubStep({QuatA, QuatB}, {InitialHeight}, {Null})
    \/ StepEnd
SpecTick == Init /\ [][NextTick]_vars

\* One episode up to and past the step limit: reset and step only
NextEpisode ==
    \/ Start({IdentityQuat})
    \/ Reset({IdentityQuat, QuatC})
    \/ StepBegin({0, 4, MaxEpisodeSteps - 4}, MaxEpisodeSteps + MaxStepCount)
    \/ SubStep({IdentityQuat}, Heights, {Null})
    \/ StepEnd
SpecEpisode == Init /\ [][NextEpisode]_vars

\* Ticks whose pose or policy inference may fail.  A promise the tick awaits
\* settles, and the loop of physics.step runs to its end.
NextFault ==
    \/ Initialize({IdentityQuat})
    \/ CtlStart
    \/ CtlSetRLEnabled
    \/ TickBegin({1, 2})
    \/ PoseResolve({QuatA})
    \/ PoseFail
    \/ PolicyResolve({ActionY})
    \/ PolicyReject
    \/ SubStep({QuatA}, {InitialHeight}, {Null})
    \/ StepEnd
SpecFault ==
    /\ Init
    /\ [][NextFault]_vars
    /\ WF_vars(PoseResolve({QuatA}) \/ PoseFail)
    /\ WF_vars(PolicyResolve({ActionY}) \/ PolicyReject)
    /\ WF_vars(SubStep({QuatA}, {InitialHeight}, {Null}))
    /\ WF_vars(StepEnd)

\* Frame converter
InitFrame ==
    /\ Init
NextFrame ==
    \/ FramePick(FrameVecs)
    \/ FrameToTraining
    \/ FrameToRuntime
SpecFrame == InitFrame /\ [][NextFrame]_vars

\* The world's bodies under reconfiguration, drag and stepping
NextWorld ==
    \/ Start({IdentityQuat})
    \/ Reset({IdentityQuat})
    \/ UpdateWalls(WallSizes)
    \/ SetBoxSize(BoxSizes, {IdentityQuat})
    \/ SetMeshShape(Meshes, {IdentityQuat})
    \/ TeleportBox({InitialHeight}, {QuatA})
    \/ GrabBox({Zero3})
    \/ MoveGrabbed({Zero3})
    \/ ReleaseBox
    \/ StepBegin({1}, MaxWorldSteps)
    \/ SubStep({IdentityQuat}, {InitialHeight}, {Null})
    \/ StepEnd
SpecWorld == Init /\ [][NextWorld]_vars

\* Overlapping ticks: the controller with stop() and reset(), and step()
\* called again while earlier invocations wait for their pose inference
\* (RL control stays disabled)
NextOverlap ==
    \/ Initialize({IdentityQuat})
    \/ CtlStart
    \/ CtlStop
    \/ CtlReset({IdentityQuat})
    \/ TickBegin({1})
    \/ Yield
    \/ Resume
    \/ PoseResolve({QuatA})
    \/ PoseFail
    \/ SubStep({QuatA}, {InitialHeight}, {Null})
    \/ StepEnd
SpecOverlap == Init /\ [][NextOverlap]_vars

\* The quaternion utilities alone
NextQuat ==
    \/ QuatPick(QuatInputs)
    \/ QuatNormalize
    \/ QuatCanonicalize
    \/ QuatNormalizeAndCanonicalize
    \/ SetPredictedQuaternion
SpecQuat == Init /\ [][NextQuat]_vars

----------------------------------------------------------------------------
\* Properties

\* C1: after every sub-step (and in every other reachable state) each of the
\* three components of currentTorqueApplied lies in [-maxTorque, +maxTorque],
\* whatever actions were set.
C1_TorqueWithinBound ==
    \A i \in 1..3 : /\ -maxTorque <= currentTorqueApplied[i]
                    /\ currentTorqueApplied[i] <= maxTorque

\* C1 witness: the third consecutive sub-step under the extreme action, with
\* the applied torque saturated at the bound on two axes.
C1_Witness ==
    /\ lastOp = "subStep"
    /\ stepI >= 3
    /\ currentAction[1] = ExtremeAction * One
    /\ currentAction[3] = -(ExtremeAction * One)
    /\ currentTorqueApplied[1] = maxTorque
    /\ currentTorqueApplied[3] = -maxTorque

\* C2: the world holds no constraint before the first grabBox and at most one
\* constraint in every reachable state.
C2_AtMostOneConstraint ==
    /\ mouseBody = Null => Len(worldConstraints) = 0
    /\ Len(worldConstraints) <= 1

\* C3: a releaseBox that ends a grab (grabBox, then moveGrabbed and step calls)
\* leaves the world with exactly zero constraints.
C3_ReleaseLeavesNone ==
    [][(mouseConstraint # 0 /\ lastOp' = "releaseBox")
          => Len(worldConstraints') = 0]_vars

C6_RoundTrip ==
    fcPath \in {"TR", "RT"} => fcOut = fcIn

\* C6 witness: a vector with three different components went through
\* Runtime-to-Training and back.
C6_Witness ==
    /\ fcPath = "TR"
    /\ fcIn = <<1, 2, -1>>
    /\ fcOut = fcIn

\* C9: immediately after reset() getState() reports step_count = 0 and
\* terminated = FALSE.
C9_ResetClearsEpisode ==
    lastOp = "reset" => (getState.step_count = 0 /\ ~getState.terminated)

\* C9 witness: reset() was called on an episode terminated by its step count.
C9_Witness ==
    /\ lastOp = "reset"
    /\ resetFrom.called
    /\ resetFrom.terminated
    /\ resetFrom.byCount
    /\ getState.step_count = 0

C7_HistoryInTrainingFrame ==
    /\ lastOp \in {"initialize", "ctlReset"}
          => oriHistory = <<QuatToTraining(boxQuat), QuatToTraining(boxQuat)>>
    /\ lastOp = "tickEnd" => oriHistory[2] = QuatToTraining(boxQuat)
    /\ lastOp = "policyResolve"
          => /\ actionHistory[2] = policyOut
             /\ ctlActionHistory[2] = policyOut
             /\ ctlOriHistory[2] = QuatToTraining(lastRawQuat)

\* C8: at the end of every tick that no reset interrupted, slot 0 of each
\* history equals the value slot 1 held when the tick began.
C8_DelayLine ==
    (lastOp = "tickEnd" /\ tickStart # NoSlots)
        => /\ oriHistory[1] = tickStart.ori
           /\ actionHistory[1] = tickStart.act
           /\ ctlOriHistory[1] = tickStart.ctlOri
           /\ ctlActionHistory[1] = tickStart.ctlAct

\* C10: immediately after reset() every history that feeds the observation is
\* rebuilt: both orientation slots hold the new initial orientation (raw,
\* canonical or in Training form) and both action slots hold (0, 0, 0).
InitialOrientations ==
    {boxQuat, QuatToTraining(boxQuat),
     normalizeAndCanonicalizeQuaternion(boxQuat),
     QuatToTraining(normalizeAndCanonicalizeQuaternion(boxQuat))}
C10_HistoriesRebuilt ==
    lastOp = "ctlReset"
        => /\ oriHistory[1] \in InitialOrientations
           /\ oriHistory[2] = oriHistory[1]
           /\ actionHistory = <<Zero3, Zero3>>
           /\ ctlOriHistory[1] \in InitialOrientations
           /\ ctlOriHistory[2] = ctlOriHistory[1]
           /\ ctlActionHistory = <<Zero3, Zero3>>

C12_CurrentQuatIsSlot1 ==
    (lastOp = "tickEnd" /\ obsLog.cur # Null)
        => SubSeq(obsLog.cur, 1, 4) = ctlOriHistory[2]

\* C13: the previous-quaternion entries 10..13 of an observation equal
\* entries 0..3 of the observation of the immediately preceding tick.
C13_PrevQuatIsLastTick ==
    (tickPc = "awaitAction" /\ obsLog.prev # Null)
        => SubSeq(tickObs, 11, 14) = SubSeq(obsLog.prev, 1, 4)

\* C14: the tensor predictAction builds for the policy session declares a
\* shape whose size is the length of the observation it was given, 23.
C14_TensorShapeMatches ==
    (tickPc = "awaitAction" /\ tickTensorDims # Null)
        => /\ Len(tickObs) = ObservationLength
           /\ tickTensorDims[1] * tickTensorDims[2] = Len(tickObs)

\* C15: the angular-velocity entries 14..16 of every observation are the
\* per-component difference of the two most recent Training-frame
\* orientations, and each lies in [-1, 1] (here in units of 1/2).
C15_AngVelWithinUnit ==
    tickPc = "awaitAction"
        => /\ \A i \in 15..17 : /\ -IdentityQuat[4] <= tickObs[i]
                                /\ tickObs[i] <= IdentityQuat[4]
           /\ lastRawQuat # Null
                 => \A i \in 1..3 :
                       tickObs[14 + i] = tickObs[i] - ctlOriHistory[2][i]

\* C16: the first observation built after a reset() carries the
\* angular-velocity estimate (0, 0, 0).
C16_ZeroAngVelAfterReset ==
    (tickPc = "awaitAction" /\ obsLog.sinceReset = 1)
        => SubSeq(tickObs, 15, 17) = Zero3

\* C17: getState().terminated is TRUE exactly when the step count is >= 500
\* or the height is below 0.05; a body kept at or above the threshold is
\* terminated from step 500 on and in no state before.
C17_TerminatedExactly ==
    started
        => /\ getState.terminated
                 <=> (stepCount >= MaxEpisodeSteps \/ boxPosY < MinHeight)
           /\ boxPosY >= MinHeight
                 => (getState.terminated <=> stepCount >= MaxEpisodeSteps)

\* C17 witness: the call of step() that takes the 500th step of a body above
\* the threshold has returned, and terminated was FALSE when it began.
C17_Witness ==
    /\ lastOp = "step"
    /\ stepCount = MaxEpisodeSteps
    /\ boxPosY >= MinHeight
    /\ ~stepLog.wasTerminated
    /\ getState.terminated

\* C18: when step(n) returns it has run exactly n world integrations, each of
\* the slice 1/240 s, and stepCount has grown by exactly n, for n = 0 too and
\* also when terminated was TRUE at the call.
C18_StepRunsExactlyN ==
    lastOp = "step"
        => /\ stepLog.integrations = numSteps
           /\ stepCount = stepLog.from + numSteps
           /\ numSteps > 0 => stepLog.hz = TimeStepHz

\* C18 witness: step(4) called on a terminated episode has returned after
\* four integrations.
C18_Witness ==
    /\ lastOp = "step"
    /\ stepLog.wasTerminated
    /\ numSteps = 4
    /\ stepLog.integrations = 4
    /\ stepCount = stepLog.from + 4

\* C19: a tick that awaits pose or policy inference leaves its await only
\* towards the rest of the tick, whether the inference resolved or failed;
\* every tick that began ends with physics.step(4) done, step_count grown by
\* 4 and the controller still running.
C19_TickStepsWorld ==
    /\ [][(tickPc \in {"awaitPose", "awaitAction"} /\ tickPc' # tickPc)
             => tickPc' \in {"awaitAction", "physics"}]_vars
    /\ [][lastOp' = "tickEnd"
             => /\ stepLog'.integrations = TickSubSteps
                /\ stepCount' = stepLog'.from + TickSubSteps
                /\ ctlStepCount' = stepCount'
                /\ isRunning']_vars
    /\ (tickPc # "idle") ~> (lastOp = "tickEnd" /\ tickPc = "idle")

\* C19 witness: a tick whose policy inference rejected has ended with its
\* four sub-steps done.
C19_Witness ==
    /\ lastOp = "tickEnd"
    /\ obsLog.cur # Null
    /\ policyOut = Null
    /\ stepLog.integrations = TickSubSteps
    /\ stepCount = stepLog.from + TickSubSteps

\* C20: a pose inference that fails leaves the stored predicted orientation
\* as it was.
C20_FailedPoseKeepsPrediction ==
    [][lastOp' = "poseFail" => predictedQuaternion' = predictedQuaternion]_vars

\* C25: for a quaternion of nonzero norm, normalizeAndCanonicalizeQuaternion(q)
\* and canonicalizeQuaternion(normalizeQuaternion(q)) have unit norm, w >= 0,
\* and x >= 0 when w = 0.
C25_CanonicalUnit ==
    (qPath \in {"K", "NC"} /\ NormSq(qIn) # 0)
        => /\ NormSq(qOut) = NormSq(IdentityQuat)
           /\ qOut[4] >= 0
           /\ (qOut[4] = 0 => qOut[1] >= 0)

\* C25 witness: (-2, 0, 0, 0), of norm 2 with w = 0 and x < 0, has become
\* (1, 0, 0, 0).
C25_Witness ==
    /\ qPath = "K"
    /\ qIn = <<-4, 0, 0, 0>>
    /\ qOut = <<2, 0, 0, 0>>

\* C26: canonicalizing a canonicalized quaternion changes nothing, whether the
\* first canonicalization was canonicalizeQuaternion or the sign step of
\* normalizeAndCanonicalizeQuaternion.
C26_CanonicalizeIdempotent ==
    qPath \in {"CC", "KC"} => qOut = qPrev

\* C26 witness: the tie case w = 0, x < 0 was flipped by the first
\* canonicalization and kept by the second.
C26_Witness ==
    /\ qPath = "CC"
    /\ qIn = <<-2, 0, 0, 0>>
    /\ qPrev = <<2, 0, 0, 0>>
    /\ qOut = <<2, 0, 0, 0>>

\* C27: for a unit quaternion q, canonicalizeQuaternion(q) and
\* canonicalizeQuaternion(-q) are the same quaternion.
C27_SignInvariant ==
    (qPath = "C" /\ NormSq(qIn) = NormSq(IdentityQuat)) => qOut = qNeg

C21_FallbackToGroundTruth ==
    /\ (tickPc = "awaitAction" /\ lastOp = "tickBegin" /\ predictedQuaternion = Null)
           => SubSeq(tickObs, 1, 4)
                 = QuatToTraining(normalizeAndCanonicalizeQuaternion(boxQuat))
    /\ (lastOp = "policyReject" /\ predictedQuaternion = Null)
           => boxQuat = Null

\* C22: whatever the interleaving of step() invocations, at most one call
\* into the inference engine (pose or policy session run) is in flight.
C22_SingleInference ==
    InferenceCalls <= 1

\* C23: no tick waits for a pose inference before its physics step, and the
\* stored prediction changes only when an inference result is stored or on
\* reset.
C23_PhysicsNotDelayed ==
    /\ [](WaitingAt("awaitPose") = 0)
    /\ [][predictedQuaternion' # predictedQuaternion
             => lastOp' \in {"poseResolve", "poseFail", "reset", "ctlReset",
                             "start", "initialize"}]_vars

\* C24: a pending pose inference ends in one way only, by its result being
\* stored as the predicted orientation: stop(), reset() and further ticks
\* leave the pending calls pending.
C24_ResultStored ==
    [][WaitingAt("awaitPose")' < WaitingAt("awaitPose")
          => /\ lastOp' \in {"poseResolve", "poseFail"}
             /\ predictedQuaternion' # Null
             /\ WaitingAt("awaitPose")' = WaitingAt("awaitPose") - 1]_vars

\* C24 witness: the controller was stopped while a pose inference was in
\* flight, and the result has been stored all the same.
C24_Witness ==
    /\ lastOp = "poseResolve"
    /\ ~isRunning
    /\ predictedQuaternion = QuatA

\* C29: once started, the world holds exactly one dynamic body, and it is the
\* body this.boxBody refers to.
C29_OneTrackedBody ==
    started
        => /\ Cardinality({b \in worldBodies : b.type = "dynamic"}) = 1
           /\ \A b \in worldBodies :
                  b.type = "dynamic" => (b.id = boxBody /\ b.kind = "box")

\* C29 witness: the shape was changed to a mesh while the marker body of a
\* grab is in the world, and the body has been stepped since.
C29_Witness ==
    /\ lastOp = "step"
    /\ mouseBody # Null
    /\ \E b \in worldBodies : b.kind = "mouse"
    /\ \E b \in worldBodies : b.id = boxBody /\ b.shape = "Trimesh"

\* C30: an arena size that is not positive and mesh data that is not a list of
\* triangles over existing vertices are never taken over: the wall size in
\* force is positive and the mesh in force, if any, is well formed.
C30_InvalidConfigRejected ==
    /\ wallSize > 0
    /\ meshData # Null
           => /\ meshData[1] > 0
              /\ meshData[1] % 3 = 0
              /\ Len(meshData[2]) > 0
              /\ Len(meshData[2]) % 3 = 0
              /\ \A k \in 1..Len(meshData[2]) :
                     meshData[2][k] >= 0 /\ 3 * meshData[2][k] < meshData[1]

\* C31: a sub-step sets each axis of the applied torque to
\* clamp(applied * (1 - rampSpeed) + target * rampSpeed, -maxTorque, maxTorque),
\* the world is integrated with the torque so updated, and for a target inside
\* the bound the distance between target and applied torque does not grow.
C31_RampBeforeIntegration ==
    [][(lastOp' = "subStep" /\ stepCount' = stepCount + 1)
          => \A i \in 1..3 :
                LET target == FxMul(currentAction[i], maxTorque)
                    before == currentTorqueApplied[i]
                    after  == currentTorqueApplied'[i]
                    Dist(a, b) == IF a >= b THEN a - b ELSE b - a
                IN  /\ after = MaxOf(-maxTorque,
                                MinOf(maxTorque,
                                      FxMul(before, One - rampSpeed)
                                         + FxMul(target, rampSpeed)))
                    /\ stepLog'.torqueAtStep[i] = after
                    /\ (-maxTorque <= target /\ target <= maxTorque)
                          => Dist(target, after) <= Dist(target, before)]_vars

\* C31 witness: a later sub-step of a call under a unit action, with the
\* applied torque on its way from the first step's value to the target and
\* integrated as updated.
C31_Witness ==
    /\ lastOp = "subStep"
    /\ stepI >= 2
    /\ currentAction = ActionX
    /\ currentTorqueApplied[1] > FxMul(targetTorque[1], rampSpeed)
    /\ currentTorqueApplied[1] < targetTorque[1]
    /\ stepLog.torqueAtStep = currentTorqueApplied

C33_HistoryOncePerStep ==
    /\ [](inStep => stepLog.shifts = 0)
    /\ [](lastOp \in {"step", "tickEnd"}
             => (stepLog.shifts = 1 /\ oriHistory[2] = boxQuat))
    /\ [][(lastOp' = "subStep" /\ stepCount' = stepCount + 1)
             => oriHistory' = oriHistory]_vars
    /\ [][(inStep /\ ~inStep')
             => oriHistory' = <<oriHistory[2], boxQuat>>]_vars

\* C33 witness: a call of four sub-steps has returned and the two history
\* slots differ.
C33_Witness ==
    /\ lastOp = "step"
    /\ stepLog.integrations = 4
    /\ stepLog.shifts = 1
    /\ oriHistory[1] # oriHistory[2]

C34_DampingFollowsGrab ==
    /\ (started /\ mouseConstraint # 0) => damping = HeldDamping
    /\ lastOp = "releaseBox" => damping = RestDamping

\* C36: every constraint of the world is attached to the current tracked
\* body.
C36_ConstraintsOnTrackedBody ==
    \A k \in 1..Len(worldConstraints) : worldConstraints[k].bodyA = "boxBody"

C38_StaleResultDropped ==
    [][(tickPc = "awaitPose" /\ tickStart = NoSlots
          /\ lastOp' \in {"poseResolve", "poseFail"})
          => predictedQuaternion' = Null]_vars

\* C38 (amended): reset() clears the predicted orientation, which then stays
\* null until the next pose inference completes; that completion stores its
\* result whether the inference began before or after the reset.
C38_NullUntilNextResult ==
    /\ [][lastOp' = "ctlReset" => predictedQuaternion' = Null]_vars
    /\ [][(predictedQuaternion = Null /\ predictedQuaternion' # Null)
            => (tickPc = "awaitPose" /\ lastOp' \in {"poseResolve", "poseFail"})]_vars
    /\ [][(tickPc = "awaitPose" /\ lastOp' \in {"poseResolve", "poseFail"})
            => predictedQuaternion' # Null]_vars
C38_Witness ==
    /\ lastOp = "poseResolve"
    /\ tickStart = NoSlots
    /\ resetFrom.called
    /\ frameCount = 0
    /\ predictedQuaternion # Null

C40_ObservationFinite ==
    started => /\ ~getObservation.threw
               /\ Len(getObservation.obs) = ObservationLength
               /\ \A k \in 1..Len(getObservation.obs) : ~getObservation.obs[k].nan

====
